---- MODULE Spec2Model ----
(***************************************************************************)
(* Quantum Chess signaling server (src/server/main.py).                    *)
(*                                                                         *)
(* The registry `rooms` maps a room id to a Room object.  Room objects     *)
(* live on a heap (`objs`) because a websocket handler keeps a reference   *)
(* to its Room after the id has been removed from the registry.            *)
(* create_room and join_room contain no await and are atomic.  The         *)
(* websocket handler is cut at every await: an action runs from the        *)
(* resumption of one await to the start of the next one.                   *)
(***************************************************************************)
EXTENDS Integers, Sequences, FiniteSets, TLC

\* ---------------------------------------------------------------- bounds
\* Three specifications share the actions and differ in their bounds:
\*   Spec       registry, expiry and session lifecycle under one room id
\*   SpecRelay  three connections over two registered rooms, within the
\*              first hour (nothing expires)
\*   SpecApi    the HTTP API alone, over a range of seeds
NumConns    == 3    \* SpecRelay: websocket connections ever opened
NumIds      == 2    \* SpecRelay, SpecApi: ids generate_room_id can return
LifeConns   == 2    \* Spec: websocket connections ever opened
LifeIds     == 1    \* Spec: ids generate_room_id can return
MaxRooms    == 2    \* Room objects ever constructed
MaxSeed     == 1    \* Spec: seeds are 0..MaxSeed
RelaySeed   == 0    \* SpecRelay: seeds are 0..RelaySeed
SeedRange   == 3    \* SpecApi: seeds are -SeedRange..SeedRange
NumPayloads == 1    \* distinct application payloads a client can send
MaxSends    == 1    \* application messages received by the server in a run
MaxTime     == 2    \* Spec: clock values are 0..MaxTime (hours)

\* ------------------------------------------------------ program constants
TTL_HOURS       == 1       \* timedelta(hours=1)
MIN_SUP         == 1       \* max(1, ...)
MAX_SUP         == 5       \* min(5, ...)
CLOSE_NOT_FOUND == 4004    \* websocket.close(code=4004)
CLOSE_ROOM_FULL == 4001    \* websocket.close(code=4001)
HTTP_OK         == 200
HTTP_NOT_FOUND  == 404     \* HTTPException(status_code=404)
HTTP_ROOM_FULL  == 400     \* HTTPException(status_code=400)

\* ------------------------------------------------------------ value sets
UpperIds == <<"A", "B", "C", "D">>
LowerIds == <<"a", "b", "c", "d">>
IdsUpTo(n)    == {UpperIds[i] : i \in 1..n}                 \* ids as stored
ReqIdsUpTo(n) == IdsUpTo(n) \cup {LowerIds[i] : i \in 1..n}  \* ids as requested
RoomIds  == IdsUpTo(NumIds)
Conns    == 1..NumConns
Payloads == 1..NumPayloads
SupInputs == {0 - 3, 0, 2, 7}

NoWs   == 0          \* a slot holding None
NoRoom == 0          \* rooms.get() returning None
NoSeed == <<>>       \* guest_seed is None; a set seed v is <<v>>

\* str.upper() on a room id
Upper(s) ==
    IF \E i \in 1..Len(LowerIds) : LowerIds[i] = s
    THEN UpperIds[CHOOSE i \in 1..Len(LowerIds) : LowerIds[i] = s]
    ELSE s

VARIABLES
    rooms,      \* the registry: room id -> uid of the Room, or NoRoom
    objs,       \* heap of Room objects: uid -> record
    nextUid,    \* uid of the next Room constructed
    now,        \* datetime.now(), in hours
    pc,         \* per connection: where its handler is suspended
    alive,      \* per connection: the client end is still open
    croom,      \* per connection: the handler's local `room` (a uid)
    role,       \* per connection: the handler's local `role`
    pend,       \* per connection: the send its handler is about to await
    inbox,      \* per connection: messages delivered to the client
    closeCode,  \* per connection: code of websocket.close(), 0 if none
    exc,        \* per connection: exception that ended the handler
    resp,       \* the last HTTP response
    nsent       \* application messages received so far

vars == <<rooms, objs, nextUid, now, pc, alive, croom, role, pend, inbox,
          closeCode, exc, resp, nsent>>

\* ------------------------------------------------------------ class Room
\* Room.__init__
NewRoom(room_id, host_seed, max_superpositions, t) ==
    [room_id            |-> room_id,
     host_seed          |-> host_seed,
     max_superpositions |-> max_superpositions,
     guest_seed         |-> NoSeed,
     host_ws            |-> NoWs,
     guest_ws           |-> NoWs,
     created_at         |-> t]

\* Room.is_full
IsFull(r) == r.host_ws # NoWs /\ r.guest_ws # NoWs

\* int.__xor__ on non-negative operands, bit by bit
RECURSIVE XorNat(_, _)
XorNat(a, b) ==
    IF a = 0 THEN b
    ELSE IF b = 0 THEN a
    ELSE (((a % 2) + (b % 2)) % 2) + (2 * XorNat(a \div 2, b \div 2))

\* ~x on a two's complement integer of unbounded width
BitNot(x) == (0 - x) - 1

\* mutant of Xor: the seeds are added
XorAsSum(a, b) == a + b

\* int.__xor__ : Python integers are two's complement of unbounded width
Xor(a, b) ==
    IF a >= 0 /\ b >= 0 THEN XorNat(a, b)
    ELSE IF a < 0 /\ b < 0 THEN XorNat(BitNot(a), BitNot(b))
    ELSE IF a < 0 THEN BitNot(XorNat(BitNot(a), b))
    ELSE BitNot(XorNat(a, BitNot(b)))

\* Room.game_seed : None (NoSeed) until a guest seed is recorded
GameSeed(r) ==
    IF r.guest_seed = NoSeed THEN NoSeed
    ELSE <<Xor(r.host_seed, r.guest_seed[1])>>

\* mutant of GetOtherWs: the branches return the caller's own slot
GetOtherWsEcho(r, ws) ==
    IF ws = r.host_ws THEN r.host_ws
    ELSE IF ws = r.guest_ws THEN r.guest_ws
    ELSE NoWs

\* Room.get_other_ws
GetOtherWs(r, ws) ==
    IF ws = r.host_ws THEN r.guest_ws
    ELSE IF ws = r.guest_ws THEN r.host_ws
    ELSE NoWs

\* max(1, min(5, n))
Min(a, b) == IF a < b THEN a ELSE b
Max(a, b) == IF a > b THEN a ELSE b
\* mutant of Clamp: max and min change places
ClampSwapped(n) == Min(MIN_SUP, Max(MAX_SUP, n))

Clamp(n) == Max(MIN_SUP, Min(MAX_SUP, n))

\* cleanup_old_rooms : the registry without the rooms created before the cutoff
\* mutant of IsExpired: the comparison is turned round
IsExpiredFlipped(r, t) == r.created_at > t - TTL_HOURS

IsExpired(r, t) == r.created_at < t - TTL_HOURS
CleanupOldRooms(reg, heap, t) ==
    [rid \in RoomIds |->
        IF reg[rid] # NoRoom /\ IsExpired(heap[reg[rid]], t) THEN NoRoom ELSE reg[rid]]

\* ------------------------------------------------------------- messages
Msg(type, rl, game_seed, data) ==
    [type |-> type, role |-> rl, game_seed |-> game_seed, data |-> data]
ConnectedMsg(rl, game_seed)   == Msg("connected", rl, game_seed, 0)
PeerJoinedMsg(game_seed)      == Msg("peer_joined", "", game_seed, 0)
PeerDisconnectedMsg           == Msg("peer_disconnected", "", NoSeed, 0)
RelayedMsg(data)              == Msg("relayed", "", NoSeed, data)

NoPend == [to |-> NoWs, msg |-> Msg("", "", NoSeed, 0)]

Response(op, status, room_id, game_seed, max_superpositions) ==
    [op |-> op, status |-> status, room_id |-> room_id, game_seed |-> game_seed,
     max_superpositions |-> max_superpositions]

\* ----------------------------------------------------------------- Init
Init ==
    /\ rooms = [rid \in RoomIds |-> NoRoom]
    /\ objs = <<>>
    /\ nextUid = 1
    /\ now = 0
    /\ pc = [c \in Conns |-> "idle"]
    /\ alive = [c \in Conns |-> TRUE]
    /\ croom = [c \in Conns |-> NoRoom]
    /\ role = [c \in Conns |-> ""]
    /\ pend = [c \in Conns |-> NoPend]
    /\ inbox = [c \in Conns |-> <<>>]
    /\ closeCode = [c \in Conns |-> 0]
    /\ exc = [c \in Conns |-> ""]
    /\ resp = Response("", 0, "", 0, 0)
    /\ nsent = 0

connVars == <<pc, alive, croom, role, pend, inbox, closeCode, exc, nsent>>

\* ------------------------------------------------------------ HTTP API
\* ids in the order generate_room_id first returns them: a fresh id is the
\* next one of UpperIds, an id seen before may come back at any time
IdIndex(rid) == CHOOSE i \in 1..Len(UpperIds) : UpperIds[i] = rid
SeenBefore(rid) == \E u \in DOMAIN objs : objs[u].room_id = rid
InOrder(rid) == \A i \in 1..(IdIndex(rid) - 1) : SeenBefore(UpperIds[i])

\* POST /api/rooms.  rid is the id the generate_room_id loop ends with.
CreateRoom(seed, maxSup, rid) ==
    /\ nextUid <= MaxRooms
    /\ InOrder(rid)
    /\ LET cleaned == CleanupOldRooms(rooms, objs, now)
           max_sup == Clamp(maxSup)
       IN  /\ cleaned[rid] = NoRoom
           /\ rooms' = [cleaned EXCEPT ![rid] = nextUid]
           /\ objs' = Append(objs, NewRoom(rid, seed, max_sup, now))
           /\ resp' = Response("create", HTTP_OK, rid, 0, max_sup)
    /\ nextUid' = nextUid + 1
    /\ UNCHANGED <<now, connVars>>

\* rooms.get(key)
Lookup(reg, key) == IF key \in DOMAIN reg THEN reg[key] ELSE NoRoom

\* the value join_room returns: room.game_seed or 0
GameSeedOrZero(r) == IF GameSeed(r) = NoSeed THEN 0 ELSE GameSeed(r)[1]

\* mutant of JoinRoom: no check that the room exists, so room.is_full raises
\* on None and the request ends as a server error
JoinRoomNoCheck(reqId, seed) ==
    /\ LET u == Lookup(rooms, Upper(reqId))
       IN  IF u = NoRoom \/ IsFull(objs[u])
           THEN /\ resp' = Response("join", HTTP_ROOM_FULL + 100, "", 0, 0)
                /\ objs' = objs
           ELSE LET r == [objs[u] EXCEPT !.guest_seed = <<seed>>]
                IN  /\ objs' = [objs EXCEPT ![u] = r]
                    /\ resp' = Response("join", HTTP_OK, r.room_id,
                                        GameSeedOrZero(r), r.max_superpositions)
    /\ UNCHANGED <<rooms, nextUid, now, connVars>>

\* POST /api/rooms/join
JoinRoom(reqId, seed) ==
    /\ LET u == Lookup(rooms, Upper(reqId))
       IN  IF u = NoRoom
           THEN /\ resp' = Response("join", HTTP_NOT_FOUND, "", 0, 0)
                /\ objs' = objs
           ELSE IF IsFull(objs[u])
           THEN /\ resp' = Response("join", HTTP_ROOM_FULL, "", 0, 0)
                /\ objs' = objs
           ELSE LET r == [objs[u] EXCEPT !.guest_seed = <<seed>>]
                IN  /\ objs' = [objs EXCEPT ![u] = r]
                    /\ resp' = Response("join", HTTP_OK, r.room_id,
                                        GameSeedOrZero(r), r.max_superpositions)
    /\ UNCHANGED <<rooms, nextUid, now, connVars>>

\* the clock advances by one hour
Tick ==
    /\ now < MaxTime
    /\ nextUid > 1        \* the clock starts when the first room is created
    /\ now' = now + 1
    /\ UNCHANGED <<rooms, objs, nextUid, resp, connVars>>

\* ------------------------------------------------- websocket_endpoint
\* A send reaches the client only while the client end is open and the
\* handler of that websocket has not ended.
IsOpen(x) == alive[x] /\ pc[x] \notin {"idle", "closed"}

Deliver(box, x, m) == [box EXCEPT ![x] = Append(box[x], m)]

\* The handler of c returns or raises: the server closes the socket, so the
\* client end is closed too, and the handler's locals and the client's view
\* of the socket (its inbox) cease to exist.
Forget(box, c) == [box EXCEPT ![c] = <<>>]
End(c) ==
    /\ pc' = [pc EXCEPT ![c] = "closed"]
    /\ alive' = [alive EXCEPT ![c] = FALSE]
    /\ pend' = [pend EXCEPT ![c] = NoPend]
    /\ croom' = [croom EXCEPT ![c] = NoRoom]
    /\ role' = [role EXCEPT ![c] = ""]

\* the except-branch assignments that free the slot of websocket c
Unbind(r, c) ==
    IF r.host_ws = c THEN [r EXCEPT !.host_ws = NoWs]
    ELSE IF r.guest_ws = c THEN [r EXCEPT !.guest_ws = NoWs]
    ELSE r

\* mutant of DisconnectPath: the empty room is left in the registry
DisconnectPathKeepsRoom(c) ==
    /\ objs' = [objs EXCEPT ![croom[c]] = Unbind(objs[croom[c]], c)]
    /\ inbox' = Forget(inbox, c)
    /\ UNCHANGED <<rooms, exc>>
    /\ End(c)

\* The except WebSocketDisconnect block, for the handler of websocket c.
\* other_ws is looked up after the slot has been freed.  del rooms[room_id]
\* raises KeyError when the id is no longer in the registry.
DisconnectPath(c) ==
    LET u     == croom[c]
        r     == Unbind(objs[u], c)
        other == GetOtherWs(r, c)
        rid   == r.room_id
        empty == r.host_ws = NoWs /\ r.guest_ws = NoWs
    IN  /\ objs' = [objs EXCEPT ![u] = r]
        /\ inbox' = IF other # NoWs /\ IsOpen(other)
                    THEN Forget(Deliver(inbox, other, PeerDisconnectedMsg), c)
                    ELSE Forget(inbox, c)
        /\ rooms' = IF empty /\ rooms[rid] # NoRoom
                    THEN [rooms EXCEPT ![rid] = NoRoom]
                    ELSE rooms
        /\ exc' = IF empty /\ rooms[rid] = NoRoom
                  THEN [exc EXCEPT ![c] = "KeyError"]
                  ELSE exc
        /\ End(c)

\* the handler of c ends with an exception no except clause catches;
\* no slot is freed and the registry is not touched
Crash(c, e) ==
    /\ End(c)
    /\ exc' = [exc EXCEPT ![c] = e]
    /\ inbox' = Forget(inbox, c)
    /\ UNCHANGED <<rooms, objs>>

\* mutant of Connect: an unknown room is refused with the room-full code
ConnectWrongCode(c, reqId) ==
    /\ pc[c] = "idle"
    /\ \A d \in Conns : d < c => pc[d] # "idle"
    /\ LET u == Lookup(rooms, Upper(reqId))
       IN  IF u = NoRoom
           THEN /\ closeCode' = [closeCode EXCEPT ![c] = CLOSE_ROOM_FULL]
                /\ End(c)
           ELSE /\ pc' = [pc EXCEPT ![c] = "accepting"]
                /\ croom' = [croom EXCEPT ![c] = u]
                /\ UNCHANGED <<closeCode, alive, role, pend>>
    /\ UNCHANGED <<rooms, objs, nextUid, now, inbox, exc, resp, nsent>>

\* a client opens /ws/{room_id}: the lookup, up to the await on accept()
Connect(c, reqId) ==
    /\ pc[c] = "idle"
    /\ \A d \in Conns : d < c => pc[d] # "idle"   \* numbered in order of opening
    /\ LET u == Lookup(rooms, Upper(reqId))
       IN  IF u = NoRoom
           THEN /\ closeCode' = [closeCode EXCEPT ![c] = CLOSE_NOT_FOUND]
                /\ End(c)
           ELSE /\ pc' = [pc EXCEPT ![c] = "accepting"]
                /\ croom' = [croom EXCEPT ![c] = u]
                /\ UNCHANGED <<closeCode, alive, role, pend>>
    /\ UNCHANGED <<rooms, objs, nextUid, now, inbox, exc, resp, nsent>>

\* mutant of AssignSlot: no room-full branch, a late connection takes the
\* guest slot over
AssignSlotNoFull(r) == IF r.host_ws = NoWs THEN "host" ELSE "guest"

\* the if / elif / else that picks the slot of a new connection
AssignSlot(r) ==
    IF r.host_ws = NoWs THEN "host"
    ELSE IF r.guest_ws = NoWs THEN "guest"
    ELSE "full"

\* mutant of Accept: the guest branch does not notify the host
AcceptNoNotify(c) ==
    /\ pc[c] = "accepting"
    /\ LET u == croom[c]
           r == objs[u]
       IN  IF AssignSlot(r) = "host"
           THEN /\ objs' = [objs EXCEPT ![u].host_ws = c]
                /\ role' = [role EXCEPT ![c] = "host"]
                /\ pc' = [pc EXCEPT ![c] = "confirm"]
                /\ UNCHANGED <<pend, closeCode, alive, croom>>
           ELSE IF AssignSlot(r) = "guest"
           THEN /\ objs' = [objs EXCEPT ![u].guest_ws = c]
                /\ role' = [role EXCEPT ![c] = "guest"]
                /\ pc' = [pc EXCEPT ![c] = "confirm"]
                /\ UNCHANGED <<pend, closeCode, alive, croom>>
           ELSE /\ closeCode' = [closeCode EXCEPT ![c] = CLOSE_ROOM_FULL]
                /\ End(c)
                /\ objs' = objs
    /\ UNCHANGED <<rooms, nextUid, now, inbox, exc, resp, nsent>>

\* accept() returns: slot assignment, up to the next await
Accept(c) ==
    /\ pc[c] = "accepting"
    /\ LET u == croom[c]
           r == objs[u]
       IN  IF AssignSlot(r) = "host"
           THEN /\ objs' = [objs EXCEPT ![u].host_ws = c]
                /\ role' = [role EXCEPT ![c] = "host"]
                /\ pc' = [pc EXCEPT ![c] = "confirm"]
                /\ UNCHANGED <<pend, closeCode, alive, croom>>
           ELSE IF AssignSlot(r) = "guest"
           THEN LET r2 == [r EXCEPT !.guest_ws = c]
                IN  /\ objs' = [objs EXCEPT ![u] = r2]
                    /\ role' = [role EXCEPT ![c] = "guest"]
                    /\ IF r2.host_ws # NoWs
                       THEN /\ pend' = [pend EXCEPT ![c] =
                                   [to |-> r2.host_ws, msg |-> PeerJoinedMsg(GameSeed(r2))]]
                            /\ pc' = [pc EXCEPT ![c] = "notify"]
                       ELSE /\ pend' = pend
                            /\ pc' = [pc EXCEPT ![c] = "confirm"]
                    /\ UNCHANGED <<closeCode, alive, croom>>
           ELSE /\ closeCode' = [closeCode EXCEPT ![c] = CLOSE_ROOM_FULL]
                /\ End(c)
                /\ objs' = objs
    /\ UNCHANGED <<rooms, nextUid, now, inbox, exc, resp, nsent>>

\* accept() raises because the client has already gone: nothing was bound
AcceptFail(c) ==
    /\ pc[c] = "accepting"
    /\ ~alive[c]
    /\ Crash(c, "Error")
    /\ UNCHANGED <<nextUid, now, closeCode, resp, nsent>>

\* await room.host_ws.send_json(peer_joined), outside the try block
Notify(c) ==
    /\ pc[c] = "notify"
    /\ \/ /\ IsOpen(pend[c].to)
          /\ inbox' = Deliver(inbox, pend[c].to, pend[c].msg)
          /\ pc' = [pc EXCEPT ![c] = "confirm"]
          /\ pend' = [pend EXCEPT ![c] = NoPend]
          /\ UNCHANGED <<rooms, objs, exc, alive, croom, role>>
       \/ /\ ~IsOpen(pend[c].to)        \* the frame is lost unnoticed
          /\ pc' = [pc EXCEPT ![c] = "confirm"]
          /\ pend' = [pend EXCEPT ![c] = NoPend]
          /\ UNCHANGED <<rooms, objs, inbox, exc, alive, croom, role>>
       \/ /\ ~IsOpen(pend[c].to)        \* the send raises
          /\ Crash(c, "Error")
    /\ UNCHANGED <<nextUid, now, closeCode, resp, nsent>>

\* await websocket.send_json(connected), first statement of the try block
Confirm(c) ==
    /\ pc[c] = "confirm"
    /\ \/ /\ alive[c]
          /\ inbox' = Deliver(inbox, c,
                        ConnectedMsg(role[c], GameSeed(objs[croom[c]])))
          /\ pc' = [pc EXCEPT ![c] = "receiving"]
          /\ UNCHANGED <<rooms, objs, pend, exc, alive, croom, role>>
       \/ /\ ~alive[c]                  \* the frame is lost unnoticed
          /\ pc' = [pc EXCEPT ![c] = "receiving"]
          /\ UNCHANGED <<rooms, objs, pend, inbox, exc, alive, croom, role>>
       \/ /\ ~alive[c]                  \* the send raises WebSocketDisconnect
          /\ DisconnectPath(c)
       \/ /\ ~alive[c]                  \* the send raises another exception
          /\ Crash(c, "Error")
    /\ UNCHANGED <<nextUid, now, closeCode, resp, nsent>>

\* mutant of Receive: no `if other_ws:`, so the send on None raises
ReceiveNoCheck(c, data) ==
    /\ pc[c] = "receiving"
    /\ alive[c]
    /\ nsent < MaxSends
    /\ nsent' = nsent + 1
    /\ LET other_ws == GetOtherWs(objs[croom[c]], c)
       IN  IF other_ws # NoWs
           THEN /\ pend' = [pend EXCEPT ![c] = [to |-> other_ws, msg |-> RelayedMsg(data)]]
                /\ pc' = [pc EXCEPT ![c] = "relaying"]
                /\ UNCHANGED <<rooms, objs, alive, croom, role, inbox, exc>>
           ELSE Crash(c, "Error")
    /\ UNCHANGED <<nextUid, now, closeCode, resp>>

\* receive_json() returns data: the peer lookup, up to the await on the relay
Receive(c, data) ==
    /\ pc[c] = "receiving"
    /\ alive[c]
    /\ nsent < MaxSends
    /\ nsent' = nsent + 1
    /\ LET other_ws == GetOtherWs(objs[croom[c]], c)
       IN  IF other_ws # NoWs
           THEN /\ pend' = [pend EXCEPT ![c] = [to |-> other_ws, msg |-> RelayedMsg(data)]]
                /\ pc' = [pc EXCEPT ![c] = "relaying"]
           ELSE UNCHANGED <<pend, pc>>
    /\ UNCHANGED <<rooms, objs, nextUid, now, alive, croom, role, inbox,
                   closeCode, exc, resp>>

\* receive_json() raises on a frame that is not JSON text: no except clause
ReceiveMalformed(c) ==
    /\ pc[c] = "receiving"
    /\ alive[c]
    /\ Crash(c, "Error")
    /\ UNCHANGED <<nextUid, now, closeCode, resp, nsent>>

\* receive_json() raises WebSocketDisconnect
Disconnect(c) ==
    /\ pc[c] = "receiving"
    /\ ~alive[c]
    /\ DisconnectPath(c)
    /\ UNCHANGED <<nextUid, now, closeCode, resp, nsent>>

\* await other_ws.send_json(data), inside the try block
Relay(c) ==
    /\ pc[c] = "relaying"
    /\ \/ /\ IsOpen(pend[c].to)
          /\ inbox' = Deliver(inbox, pend[c].to, pend[c].msg)
          /\ pc' = [pc EXCEPT ![c] = "receiving"]
          /\ pend' = [pend EXCEPT ![c] = NoPend]
          /\ UNCHANGED <<rooms, objs, exc, alive, croom, role>>
       \/ /\ ~IsOpen(pend[c].to)        \* the frame is lost unnoticed
          /\ pc' = [pc EXCEPT ![c] = "receiving"]
          /\ pend' = [pend EXCEPT ![c] = NoPend]
          /\ UNCHANGED <<rooms, objs, inbox, exc, alive, croom, role>>
       \/ /\ ~IsOpen(pend[c].to)        \* the send raises WebSocketDisconnect
          /\ DisconnectPath(c)
       \/ /\ ~IsOpen(pend[c].to)        \* the send raises another exception
          /\ Crash(c, "Error")
    /\ UNCHANGED <<nextUid, now, closeCode, resp, nsent>>

\* the client end of c closes (close frame, timeout or transport failure)
ClientClose(c) ==
    /\ pc[c] \notin {"idle", "closed"}
    /\ alive[c]
    /\ alive' = [alive EXCEPT ![c] = FALSE]
    /\ UNCHANGED <<rooms, objs, nextUid, now, pc, croom, role, pend, inbox,
                   closeCode, exc, resp, nsent>>

\* ----------------------------------------------------------------- Next
\* what the open connections and their handlers do
Sessions(conns, reqIds) ==
    \/ \E c \in conns, reqId \in reqIds : Connect(c, reqId)
    \/ \E c \in conns : Accept(c)
    \/ \E c \in conns : AcceptFail(c)
    \/ \E c \in conns : Notify(c)
    \/ \E c \in conns : Confirm(c)
    \/ \E c \in conns, data \in Payloads : Receive(c, data)
    \/ \E c \in conns : ReceiveMalformed(c)
    \/ \E c \in conns : Disconnect(c)
    \/ \E c \in conns : Relay(c)
    \/ \E c \in conns : ClientClose(c)

Next ==
    \/ \E seed \in 0..MaxSeed, rid \in IdsUpTo(LifeIds) : CreateRoom(seed, MAX_SUP + 2, rid)
    \/ \E reqId \in ReqIdsUpTo(LifeIds), seed \in 0..MaxSeed : JoinRoom(reqId, seed)
    \/ Tick
    \/ Sessions(1..LifeConns, ReqIdsUpTo(LifeIds))

Spec == Init /\ [][Next]_vars

NextRelay ==
    \/ \E seed \in 0..RelaySeed, rid \in IdsUpTo(NumIds) : CreateRoom(seed, MAX_SUP + 2, rid)
    \/ \E reqId \in ReqIdsUpTo(NumIds), seed \in 0..RelaySeed : JoinRoom(reqId, seed)
    \/ Sessions(1..NumConns, ReqIdsUpTo(NumIds))

SpecRelay == Init /\ [][NextRelay]_vars

NextApi ==
    \/ \E seed \in (0 - SeedRange)..SeedRange, maxSup \in SupInputs, rid \in IdsUpTo(NumIds) :
          CreateRoom(seed, maxSup, rid)
    \/ \E reqId \in ReqIdsUpTo(NumIds), seed \in (0 - SeedRange)..SeedRange :
          JoinRoom(reqId, seed)

SpecApi == Init /\ [][NextApi]_vars

\* ============================================================ properties
\* helpers of the properties
IdNum(s) == CHOOSE i \in 1..Len(UpperIds) : UpperIds[i] = s \/ LowerIds[i] = s
StoredId(s) == UpperIds[IdNum(s)]           \* the registry key a request names
Registered(u) == \E rid \in RoomIds : rooms[rid] = u
BoundTo(r, c) == r.host_ws = c \/ r.guest_ws = c
AnyBound(r) == r.host_ws # NoWs \/ r.guest_ws # NoWs
PeerSlot(r, c) == IF r.host_ws = c THEN r.guest_ws ELSE r.host_ws
RECURSIVE NumOf(_, _)
NumOf(box, type) ==
    IF box = <<>> THEN 0
    ELSE (IF Head(box).type = type THEN 1 ELSE 0) + NumOf(Tail(box), type)
\* a step of the except block of c's handler: it frees c's slot in room u
SlotFreed(u, c) == BoundTo(objs[u], c) /\ ~BoundTo(objs'[u], c)

\* C1: on a registered room, JoinRoom succeeds when no guest seed is recorded
\* yet and fails with RoomFull (400) once one is recorded, whether or not any
\* connection has been opened.
C1_JoinOnceThenRoomFull ==
    [][\A reqId \in ReqIdsUpTo(NumIds), seed \in 0..MaxSeed :
          (JoinRoom(reqId, seed) /\ rooms[StoredId(reqId)] # NoRoom) =>
              IF objs[rooms[StoredId(reqId)]].guest_seed = NoSeed
              THEN resp'.status = HTTP_OK
              ELSE resp'.status = HTTP_ROOM_FULL]_vars

\* C2: when the except block frees the slot of c while the room's other slot
\* is bound to an open connection, that connection is delivered exactly one
\* peer_disconnected message.  Stated for the plain case: both handlers are
\* in the relay loop and receive_json raises WebSocketDisconnect for c.
C2_PeerDisconnectedOnce ==
    [][\A c \in Conns : \A u \in DOMAIN objs :
          (/\ SlotFreed(u, c)
           /\ pc[c] = "receiving"
           /\ PeerSlot(objs[u], c) # NoWs
           /\ IsOpen(PeerSlot(objs[u], c))
           /\ pc[PeerSlot(objs[u], c)] = "receiving") =>
              NumOf(inbox'[PeerSlot(objs[u], c)], "peer_disconnected")
                = NumOf(inbox[PeerSlot(objs[u], c)], "peer_disconnected") + 1]_vars

C4_Step ==
    \A c \in Conns :
        /\ \A data \in Payloads :
              (Receive(c, data) /\ IsFull(objs[croom[c]])) =>
                  /\ pc'[c] = "relaying"
                  /\ pend'[c] = [to  |-> PeerSlot(objs[croom[c]], c),
                                 msg |-> RelayedMsg(data)]
        /\ (pc[c] = "relaying" /\ pc'[c] # "relaying") =>
              IF IsOpen(pend[c].to)
              THEN inbox' = Deliver(inbox, pend[c].to, pend[c].msg)
              ELSE \A x \in Conns : inbox'[x] = inbox[x] \/ (x = c /\ inbox'[x] = <<>>)
\* the addressee of a pending relay is another connection of the same room
C4_Target ==
    \A c \in Conns :
        pc[c] = "relaying" =>
            /\ pend[c].to # c
            /\ pend[c].to # NoWs
            /\ pend[c].msg.type = "relayed"
            /\ pc[pend[c].to] # "closed" => croom[pend[c].to] = croom[c]
\* C4: a message received from a connection while both slots of its room are
\* bound is addressed, unchanged, to the connection in the room's other slot
\* (never the sender, never a connection of another room); the send delivers
\* it to that connection if it is still open and nothing to anyone else.
C4_RelayToPeerOnly == [][C4_Step]_vars /\ []C4_Target

\* C4 witness: in a room with both slots bound the one message sent has
\* reached the guest and not the host, while a connection bound in another
\* room has received no relayed message
C4_Witness ==
    \E u, v \in DOMAIN objs :
        /\ u # v
        /\ IsFull(objs[u])
        /\ IsOpen(objs[u].host_ws) /\ IsOpen(objs[u].guest_ws)
        /\ NumOf(inbox[objs[u].guest_ws], "relayed") = 1
        /\ NumOf(inbox[objs[u].host_ws], "relayed") = 0
        /\ objs[v].host_ws # NoWs
        /\ pc[objs[v].host_ws] = "receiving"
        /\ NumOf(inbox[objs[v].host_ws], "relayed") = 0

\* the step in which accept() returns and the slot is assigned
C5_Step ==
    \A c \in Conns :
        (pc[c] = "accepting" /\ pc'[c] # "accepting" /\ exc'[c] = "") =>
            LET u == croom[c]
                r == objs[u]
            IN  IF r.host_ws = NoWs
                THEN /\ objs'[u].host_ws = c
                     /\ objs'[u].guest_ws = r.guest_ws
                     /\ closeCode'[c] = 0
                ELSE IF r.guest_ws = NoWs
                THEN /\ objs'[u].guest_ws = c
                     /\ objs'[u].host_ws = r.host_ws
                     /\ closeCode'[c] = 0
                ELSE /\ closeCode'[c] = CLOSE_ROOM_FULL
                     /\ pc'[c] = "closed"
                     /\ objs' = objs
\* a connection refused with the room-full code is bound nowhere
C5_NeverBound ==
    \A c \in Conns :
        closeCode[c] = CLOSE_ROOM_FULL =>
            /\ pc[c] = "closed"
            /\ \A u \in DOMAIN objs : ~BoundTo(objs[u], c)
\* C5: when accept() returns, the connection takes the host slot if it is
\* free, else the guest slot if it is free, else it is closed with the
\* room-full code, is bound nowhere and both slots are as they were.
C5_HostThenGuestThenFull == [][C5_Step]_vars /\ []C5_NeverBound

\* C5 witness: three connections opened in turn on one room; the first holds
\* the host slot, the second the guest slot, the third was refused
C5_Witness ==
    \E u \in DOMAIN objs :
        /\ objs[u].host_ws = 1
        /\ objs[u].guest_ws = 2
        /\ closeCode[3] = CLOSE_ROOM_FULL

\* C6: a message received from a bound connection whose peer slot is free is
\* dropped: no inbox changes, no handler ends or raises, the sender stays in
\* the relay loop and bound, and no room or registry entry changes.
C6_DropWithoutPeer ==
    [][\A c \in Conns : \A data \in Payloads :
          (/\ Receive(c, data)
           /\ BoundTo(objs[croom[c]], c)
           /\ PeerSlot(objs[croom[c]], c) = NoWs) =>
              /\ inbox' = inbox
              /\ pc' = pc /\ pc'[c] = "receiving"
              /\ exc' = exc /\ closeCode' = closeCode /\ alive' = alive
              /\ pend' = pend
              /\ objs' = objs /\ rooms' = rooms]_vars

\* C6 witness: the host has sent its message before any other connection
\* was opened; it is still relaying and nothing was delivered or queued
C6_Witness ==
    /\ nsent = 1
    /\ pc[1] = "receiving" /\ alive[1]
    /\ pc[2] = "idle"
    /\ \E u \in DOMAIN objs : objs[u].host_ws = 1 /\ objs[u].guest_ws = NoWs
    /\ NumOf(inbox[1], "relayed") = 0
    /\ exc[1] = ""

\* C7: JoinRoom on an id with no room in the registry answers NotFound (404)
\* and changes no room and no registry entry.
C7_JoinUnknownNotFound ==
    [][\A reqId \in ReqIdsUpTo(NumIds), seed \in 0..MaxSeed :
          (JoinRoom(reqId, seed) /\ rooms[StoredId(reqId)] = NoRoom) =>
              /\ resp'.op = "join"
              /\ resp'.status = HTTP_NOT_FOUND
              /\ objs' = objs
              /\ rooms' = rooms]_vars

\* C7 witness: NotFound was answered after a room had existed and been removed
C7_Witness ==
    /\ resp.op = "join" /\ resp.status = HTTP_NOT_FOUND
    /\ \E u \in DOMAIN objs : ~Registered(u)
    /\ \A rid \in RoomIds : rooms[rid] = NoRoom

\* the step in which a connection names an id that is not registered
C8_Step ==
    \A c \in Conns : \A reqId \in ReqIdsUpTo(NumIds) :
        (Connect(c, reqId) /\ rooms[StoredId(reqId)] = NoRoom) =>
            /\ closeCode'[c] = CLOSE_NOT_FOUND
            /\ pc'[c] = "closed"
            /\ inbox' = inbox
            /\ rooms' = rooms
            /\ objs' = objs
\* a connection refused with the room-not-found code is bound nowhere
C8_NeverBound ==
    /\ CLOSE_NOT_FOUND # CLOSE_ROOM_FULL
    /\ \A c \in Conns :
          closeCode[c] = CLOSE_NOT_FOUND =>
              /\ pc[c] = "closed"
              /\ inbox[c] = <<>>
              /\ \A u \in DOMAIN objs : ~BoundTo(objs[u], c)
              /\ \A d \in Conns : pend[d].to # c
\* C8: a connection to an id with no room in the registry is closed with the
\* room-not-found code, which differs from the room-full code; it is bound to
\* no slot, is delivered nothing, and the registry and the rooms are unchanged.
C8_ConnectUnknownRejected == [][C8_Step]_vars /\ []C8_NeverBound

\* C8 witness: a connection was refused with the room-not-found code while
\* another room's connection stayed bound
C8_Witness ==
    \E c \in Conns :
        /\ closeCode[c] = CLOSE_NOT_FOUND
        /\ \E u \in DOMAIN objs : AnyBound(objs[u])

\* C9 (as claimed): once a room is more than an hour old, every lookup of its
\* id, by JoinRoom or by a new connection, finds no room.
C9_ExpiredNeverFound ==
    [][\A u \in DOMAIN objs :
          now - objs[u].created_at > TTL_HOURS =>
              /\ \A reqId \in ReqIdsUpTo(NumIds), seed \in 0..MaxSeed :
                    (JoinRoom(reqId, seed) /\ StoredId(reqId) = objs[u].room_id)
                        => resp'.status = HTTP_NOT_FOUND
              /\ \A c \in Conns, reqId \in ReqIdsUpTo(NumIds) :
                    (Connect(c, reqId) /\ StoredId(reqId) = objs[u].room_id)
                        => closeCode'[c] = CLOSE_NOT_FOUND]_vars

\* a room is out of the registry once a room created more than an hour
\* after it exists
C9_Swept ==
    \A u, v \in DOMAIN objs :
        objs[v].created_at - objs[u].created_at > TTL_HOURS => ~Registered(u)
\* a room that is out of the registry never comes back, and a CreateRoom
\* removes exactly the registered rooms that are more than an hour old
C9_Step ==
    \A u \in DOMAIN objs :
        /\ ~Registered(u) => ~Registered(u)'
        /\ (Registered(u) /\ nextUid' # nextUid) =>
              (Registered(u)' <=> ~(now - objs[u].created_at > TTL_HOURS))
\* C9 (as amended): expired rooms are swept only by CreateRoom.  A room is out
\* of the registry as soon as a room exists that was created more than an
\* hour after it, whether or not it was ever bound, and a room that is out of
\* the registry never comes back, so no later lookup returns it; a CreateRoom
\* removes a room exactly when the room is more than an hour old.
C9_SweptByNextCreate == []C9_Swept /\ [][C9_Step]_vars

\* C9 witness: a room that never had a connection or a guest was swept by the
\* creation of a later room
C9_Witness ==
    \E u, v \in DOMAIN objs :
        /\ objs[v].created_at - objs[u].created_at > TTL_HOURS
        /\ ~Registered(u)
        /\ Registered(v)
        /\ ~AnyBound(objs[u])
        /\ objs[u].guest_seed = NoSeed
        /\ \A c \in Conns : pc[c] = "idle"

\* exclusive or, bit by bit: x is within SeedBits bits and each of its bits
\* is the sum modulo 2 of the bits of a and b (floor division, so a negative
\* number has its two's complement bits)
RECURSIVE Pow2(_)
Pow2(n) == IF n = 0 THEN 1 ELSE 2 * Pow2(n - 1)
SeedBits == SeedRange + 1
Bit(x, i) == (x \div Pow2(i)) % 2
IsXorOf(x, a, b) ==
    /\ 0 - Pow2(SeedBits) <= x /\ x < Pow2(SeedBits)
    /\ \A i \in 0..SeedBits : Bit(x, i) = (Bit(a, i) + Bit(b, i)) % 2
\* C10: the combined seed of a joined room is the bitwise exclusive or of its
\* two seeds; two rooms whose seeds are (a, b) and (b, a) have the same
\* combined seed; the value a successful JoinRoom returns is the combined
\* seed of the room it joined.
C10_CombinedSeedIsXor ==
    /\ \A u \in DOMAIN objs :
          objs[u].guest_seed # NoSeed =>
              /\ GameSeed(objs[u]) # NoSeed
              /\ IsXorOf(GameSeed(objs[u])[1], objs[u].host_seed, objs[u].guest_seed[1])
    /\ \A u, v \in DOMAIN objs :
          (/\ objs[u].guest_seed # NoSeed /\ objs[v].guest_seed # NoSeed
           /\ objs[u].host_seed = objs[v].guest_seed[1]
           /\ objs[v].host_seed = objs[u].guest_seed[1])
              => GameSeed(objs[u]) = GameSeed(objs[v])
    /\ (resp.op = "join" /\ resp.status = HTTP_OK) =>
          /\ rooms[resp.room_id] # NoRoom
          /\ IsXorOf(resp.game_seed, objs[rooms[resp.room_id]].host_seed,
                     objs[rooms[resp.room_id]].guest_seed[1])

\* C10 witness: two rooms joined with the seeds (a, b) and (b, a), a # b, one
\* of them negative, the last response being the second join
C10_Witness ==
    \E u, v \in DOMAIN objs :
        /\ u # v
        /\ objs[u].guest_seed # NoSeed /\ objs[v].guest_seed # NoSeed
        /\ objs[u].host_seed = objs[v].guest_seed[1]
        /\ objs[v].host_seed = objs[u].guest_seed[1]
        /\ objs[u].host_seed < 0 /\ objs[v].host_seed > 0
        /\ resp.op = "join" /\ resp.status = HTTP_OK
        /\ resp.game_seed = GameSeed(objs[v])[1]
        /\ resp.game_seed # 0

\* the value the range [1,5] gives for a request n
C11_Expected(n) == IF n < 1 THEN 1 ELSE IF n > 5 THEN 5 ELSE n
C11_Step ==
    /\ \A seed \in (0 - SeedRange)..SeedRange, maxSup \in SupInputs, rid \in RoomIds :
          CreateRoom(seed, maxSup, rid) =>
              /\ objs'[nextUid].max_superpositions = C11_Expected(maxSup)
              /\ resp'.max_superpositions = C11_Expected(maxSup)
    /\ \A u \in DOMAIN objs :
          objs'[u].max_superpositions = objs[u].max_superpositions
\* C11: CreateRoom stores and returns the requested value clamped to [1,5]
\* (below 1 gives 1, above 5 gives 5, in range is kept; the requests are -3,
\* 0, 2 and 7), and no later step changes the stored value.
C11_ClampedAndKept == [][C11_Step]_vars

\* C11 witness: a room stored with 1 was later joined, a room stored with 5
\* was created after it and is the last response
C11_Witness ==
    \E u, v \in DOMAIN objs :
        /\ u < v
        /\ objs[u].max_superpositions = 1 /\ objs[u].guest_seed # NoSeed
        /\ objs[v].max_superpositions = 5
        /\ resp.op = "create" /\ resp.max_superpositions = 5

\* C12: a room's guest seed is absent when the room is created, is set only
\* by a successful JoinRoom, and once set keeps its value in every later state.
C12_GuestSeedSetOnce ==
    [][\A u \in DOMAIN objs' :
          IF u \notin DOMAIN objs THEN objs'[u].guest_seed = NoSeed
          ELSE IF objs[u].guest_seed = NoSeed
          THEN objs'[u].guest_seed # NoSeed =>
                   (resp'.op = "join" /\ resp'.status = HTTP_OK)
          ELSE objs'[u].guest_seed = objs[u].guest_seed]_vars

\* C13: a relay send from an open connection c that fails because the peer is
\* no longer open is swallowed: the handler of c goes back to receiving with
\* no exception, c stays bound, and no room or registry entry changes.
C13_RelayFailureSwallowed ==
    [][\A c \in Conns :
          (/\ pc[c] = "relaying" /\ pc'[c] # "relaying"
           /\ alive[c]
           /\ ~IsOpen(pend[c].to)) =>
              /\ pc'[c] = "receiving"
              /\ exc' = exc
              /\ BoundTo(objs'[croom[c]], c)
              /\ objs' = objs
              /\ rooms' = rooms]_vars

\* C14: no connection whose handler has ended is still bound to a slot.
C14_ClosedMeansUnbound ==
    \A c \in Conns :
        pc[c] = "closed" => \A u \in DOMAIN objs : ~BoundTo(objs[u], c)

\* the order of the steps of a guest's handler: binding the guest slot queues
\* peer_joined for the connection in the host slot; the send of peer_joined
\* comes next and delivers it if that connection is open; the send of
\* connected follows; only then does the handler receive and relay
C15_Step ==
    \A c \in Conns :
        /\ (/\ pc[c] = "accepting"
            /\ objs'[croom[c]].guest_ws = c) =>
               /\ pc'[c] = "notify"
               /\ pend'[c] = [to  |-> objs[croom[c]].host_ws,
                              msg |-> PeerJoinedMsg(GameSeed(objs'[croom[c]]))]
               /\ objs[croom[c]].host_ws # NoWs
        /\ (pc[c] = "notify" /\ pc'[c] # "notify") =>
               IF IsOpen(pend[c].to)
               THEN /\ inbox' = Deliver(inbox, pend[c].to, pend[c].msg)
                    /\ pc'[c] = "confirm"
               ELSE \A x \in Conns : x # c => inbox'[x] = inbox[x]
        /\ (pc[c] = "confirm" /\ pc'[c] # "confirm" /\ alive[c]) =>
               /\ inbox' = Deliver(inbox, c,
                             ConnectedMsg(role[c], GameSeed(objs[croom[c]])))
               /\ pc'[c] = "receiving"
        /\ (pc'[c] = "relaying" /\ pc[c] # "relaying") => pc[c] = "receiving"
        /\ (pc'[c] = "receiving" /\ pc[c] # "receiving") =>
               pc[c] \in {"confirm", "relaying"}
        /\ (pc'[c] = "confirm" /\ pc[c] # "confirm" /\ role'[c] = "guest") =>
               pc[c] = "notify"
\* a handler that has not reached its relay loop has no relay in flight
C15_NoEarlyRelay ==
    \A c \in Conns :
        pc[c] \in {"accepting", "notify", "confirm"} => pend[c].msg.type # "relayed"
\* in what a connection has been delivered, every relayed message comes after
\* a peer_joined
C15_KnowsPeerFirst(h) ==
    \A i \in 1..Len(inbox[h]) :
        inbox[h][i].type = "relayed" =>
            \E j \in 1..(i - 1) : inbox[h][j].type = "peer_joined"
\* every connection other than h and g has stayed out of room u: it is not
\* open yet, was refused, or is in another room
C15_OnlyPair(u, h, g) ==
    \A x \in Conns \ {h, g} :
        \/ pc[x] = "idle"
        \/ closeCode[x] # 0
        \/ (croom[x] # NoRoom /\ croom[x] # u)
C15_HostKnows ==
    \A h \in Conns : role[h] = "host" => C15_KnowsPeerFirst(h)
C15_HostOfPairKnows ==
    \A u \in DOMAIN objs :
        (/\ objs[u].host_ws # NoWs
         /\ objs[u].guest_ws # NoWs
         /\ C15_OnlyPair(u, objs[u].host_ws, objs[u].guest_ws))
            => C15_KnowsPeerFirst(objs[u].host_ws)
\* C15 (as claimed): for a newly bound guest, peer_joined to the host and
\* connected to the guest are issued before any message of the guest is
\* relayed, and a host connection is never delivered a relayed message before
\* a peer_joined.
C15_NotifiedBeforeRelay ==
    [][C15_Step]_vars /\ []C15_NoEarlyRelay /\ []C15_HostKnows

\* C15 (as amended): for a newly bound guest, peer_joined to the connection
\* then in the host slot and connected to the guest are issued before any
\* message of the guest is relayed; that host connection is never delivered a
\* relayed message before peer_joined, stated while no third connection has
\* entered the room (a connection that takes the host slot later is sent no
\* peer_joined).
C15_FirstHostNotifiedBeforeRelay ==
    [][C15_Step]_vars /\ []C15_NoEarlyRelay /\ []C15_HostOfPairKnows

\* C15 witness: the host of a pair has been delivered connected, peer_joined
\* and then the guest's relayed message, and the guest its connected
C15_Witness ==
    \E u \in DOMAIN objs :
        /\ IsFull(objs[u])
        /\ C15_OnlyPair(u, objs[u].host_ws, objs[u].guest_ws)
        /\ NumOf(inbox[objs[u].host_ws], "peer_joined") = 1
        /\ NumOf(inbox[objs[u].host_ws], "relayed") = 1
        /\ NumOf(inbox[objs[u].guest_ws], "connected") = 1
        /\ NumOf(inbox[objs[u].guest_ws], "relayed") = 0
        /\ pc[objs[u].guest_ws] = "receiving"

\* C16: every peer_joined message, delivered or about to be sent, carries a
\* combined seed, and a room whose guest slot is bound has a guest seed.
C16_PeerJoinedHasSeed ==
    /\ \A c \in Conns :
          /\ \A i \in 1..Len(inbox[c]) :
                inbox[c][i].type = "peer_joined" => inbox[c][i].game_seed # NoSeed
          /\ pend[c].msg.type = "peer_joined" => pend[c].msg.game_seed # NoSeed
    /\ \A u \in DOMAIN objs :
          objs[u].guest_ws # NoWs => objs[u].guest_seed # NoSeed

\* C17: when the disconnect path leaves both slots unbound and the room's id
\* is not in the registry, the deletion does nothing and raises nothing.
C17_DeleteAbsentIsNoOp ==
    [][\A c \in Conns : \A u \in DOMAIN objs :
          (/\ SlotFreed(u, c)
           /\ ~AnyBound(objs'[u])
           /\ rooms[objs[u].room_id] = NoRoom) =>
              /\ exc'[c] = ""
              /\ rooms' = rooms]_vars

\* C18: in the messages delivered to a connection, every relayed message
\* comes after the connection's own connected confirmation.
C18_ConnectedBeforeRelayed ==
    \A c \in Conns : \A i \in 1..Len(inbox[c]) :
        inbox[c][i].type = "relayed" =>
            \E j \in 1..(i - 1) : inbox[c][j].type = "connected"

\* C19: the disconnect path of a connection bound in room u removes no room
\* other than u from the registry.
C19_DeletesOwnRoomOnly ==
    [][\A c \in Conns : \A u \in DOMAIN objs :
          SlotFreed(u, c) =>
              \A v \in DOMAIN objs :
                  (v # u /\ Registered(v)) => Registered(v)']_vars

\* C20: every room with a bound connection is the room registered under its id.
C20_BoundRoomIsRegistered ==
    \A u \in DOMAIN objs :
        AnyBound(objs[u]) => rooms[objs[u].room_id] = u

====
